---------------------------- MODULE Spec2Model ----------------------------
(***************************************************************************)
(* CredibleMe backend: the request handlers of backend/main.py and the     *)
(* Gemini client of backend/gemini_client.py.                              *)
(*                                                                         *)
(* State: the process-wide session_storage dict and one slot per HTTP      *)
(* exchange (the request, the handler's position, what the handler holds   *)
(* and the response the caller got).  A verify handler is split at its one *)
(* blocking outbound call: BeginVerify runs it up to generate_content, and *)
(* CompleteVerify runs it from the reply to the response.  Serial runs (a  *)
(* single event loop, blocked for the round trip) are the behaviours in    *)
(* which every CompleteVerify directly follows its BeginVerify.            *)
(***************************************************************************)
EXTENDS Integers, Sequences, FiniteSets, TLC

(***************************************************************************)
(* Bounds of the model.                                                    *)
(***************************************************************************)
NumReqs == 2
MaxMembers == 2
MaxFieldLen == 2

(***************************************************************************)
(* Program constants.                                                      *)
(***************************************************************************)
DefaultScore == 75
VerifiedThreshold == 70
ReasoningLimit == 500

Min(a, b) == IF a < b THEN a ELSE b

(***************************************************************************)
(* Text.  A request field is a sequence of characters.  A reply of the     *)
(* text-generation service is a sequence of lexical tokens [k, n, s]:      *)
(*   k = "{" "}" ":" "," " "   the character itself                        *)
(*   k = "word"   bare text s (s = "trust_score": the bare key name)       *)
(*   k = "str"    a double-quoted literal with content s; s = "#" stands   *)
(*                for a quoted run of decimal digits of value n            *)
(*   k = "num"    an unquoted decimal integer n, "-" and digits            *)
(*   k = "null"   the bare word null                                       *)
(***************************************************************************)
Whitespace == {" ", "\t", "\n"}

Sym(k) == [k |-> k, n |-> 0, s |-> ""]
Word(s) == [k |-> "word", n |-> 0, s |-> s]
Str(s) == [k |-> "str", n |-> 0, s |-> s]
NumStr(n) == [k |-> "str", n |-> n, s |-> "#"]
Num(n) == [k |-> "num", n |-> n, s |-> ""]
QTS == Str("trust_score")

(***************************************************************************)
(* Python values held in a result dict: a str (s, or the raw text t for a  *)
(* slice of the reply), an int, or None.                                   *)
(***************************************************************************)
PyStr(s) == [k |-> "str", n |-> 0, s |-> s, t |-> <<>>]
PyDigits(n) == [k |-> "str", n |-> n, s |-> "#", t |-> <<>>]
PyText(t) == [k |-> "str", n |-> 0, s |-> "", t |-> t]
PyInt(n) == [k |-> "int", n |-> n, s |-> "", t |-> <<>>]
PyNone == [k |-> "None", n |-> 0, s |-> "", t |-> <<>>]

\* str.strip(): leading and trailing whitespace removed.
RECURSIVE LStrip(_)
LStrip(str) ==
    IF str = <<>> THEN str
    ELSE IF Head(str) \in Whitespace THEN LStrip(Tail(str))
    ELSE str

RECURSIVE RStrip(_)
RStrip(str) ==
    IF str = <<>> THEN str
    ELSE IF str[Len(str)] \in Whitespace THEN RStrip(SubSeq(str, 1, Len(str) - 1))
    ELSE str

Strip(str) == RStrip(LStrip(str))

(***************************************************************************)
(* _parse_response, primary tier.                                          *)
(***************************************************************************)
IsBrace(tok) == tok.k \in {"{", "}"}

\* The first brace at or after position i (Len + 1 when there is none).
RECURSIVE NextBrace(_, _)
NextBrace(text, i) ==
    IF i > Len(text) THEN i
    ELSE IF IsBrace(text[i]) THEN i
    ELSE NextBrace(text, i + 1)

\* re.search(r'\{[^{}]*"trust_score"[^{}]*\}', text, re.DOTALL) matching at i.
JsonMatchAt(text, i) ==
    /\ text[i].k = "{"
    /\ LET j == NextBrace(text, i + 1)
       IN  /\ j <= Len(text)
           /\ text[j].k = "}"
           /\ \E m \in (i + 1)..(j - 1) : text[m] = QTS

JsonMatchStarts(text) == {i \in 1..Len(text) : JsonMatchAt(text, i)}

HasJsonMatch(text) == JsonMatchStarts(text) # {}

\* json_match.group(): the leftmost match, braces included.
JsonMatchGroup(text) ==
    LET i == CHOOSE a \in JsonMatchStarts(text) :
                 \A b \in JsonMatchStarts(text) : a <= b
    IN  SubSeq(text, i, NextBrace(text, i + 1))

\* JSON ignores whitespace between tokens.
RECURSIVE DropWs(_)
DropWs(text) ==
    IF text = <<>> THEN <<>>
    ELSE IF Head(text).k = " " THEN DropWs(Tail(text))
    ELSE <<Head(text)>> \o DropWs(Tail(text))

IsJsonValue(tok) == tok.k \in {"str", "num", "null"}

\* members: pair ("," pair)*, pair: string ":" value.
RECURSIVE IsMembers(_)
IsMembers(toks) ==
    /\ Len(toks) >= 3
    /\ toks[1].k = "str"
    /\ toks[2].k = ":"
    /\ IsJsonValue(toks[3])
    /\ \/ Len(toks) = 3
       \/ /\ Len(toks) > 4
          /\ toks[4].k = ","
          /\ IsMembers(SubSeq(toks, 5, Len(toks)))

\* json.loads accepts the fragment (an object; the match is never "{}").
JsonLoadsOk(frag) ==
    LET toks == DropWs(frag)
    IN  /\ Len(toks) >= 2
        /\ toks[1].k = "{"
        /\ toks[Len(toks)].k = "}"
        /\ IsMembers(SubSeq(toks, 2, Len(toks) - 1))

KeyOf(tok) == IF tok.s = "#" THEN <<"#", tok.n>> ELSE <<tok.s, 0>>

PyValueOf(tok) ==
    IF tok.k = "num" THEN PyInt(tok.n)
    ELSE IF tok.k = "null" THEN PyNone
    ELSE IF tok.s = "#" THEN PyDigits(tok.n)
    ELSE PyStr(tok.s)

\* The positions of the keys of a well-formed fragment: 2, 6, 10, ...
KeyPositions(toks) == {p \in 2..(Len(toks) - 1) : p % 4 = 2}

\* parsed.get(key, default) on the dict json.loads built: the last pair with
\* that key wins.
DictGet(frag, key, default) ==
    LET toks == DropWs(frag)
        hits == {p \in KeyPositions(toks) : KeyOf(toks[p]) = <<key, 0>>}
    IN  IF hits = {} THEN default
        ELSE LET p == CHOOSE a \in hits : \A b \in hits : b <= a
             IN  PyValueOf(toks[p + 2])

\* int(v) raises for None and for a str that is not a decimal integer.
IntRaises(v) == v.k = "None" \/ (v.k = "str" /\ v.s # "#")

\* The try block returns (no exception, and json_match is not None).
PrimaryReturns(text) ==
    /\ HasJsonMatch(text)
    /\ JsonLoadsOk(JsonMatchGroup(text))
    /\ ~IntRaises(DictGet(JsonMatchGroup(text), "trust_score", PyInt(DefaultScore)))

ParsePrimary(text) ==
    LET frag == JsonMatchGroup(text)
    IN  [trust_score |-> DictGet(frag, "trust_score", PyInt(DefaultScore)).n,
         reasoning |-> DictGet(frag, "reasoning", PyStr("Analysis completed")),
         badge |-> DictGet(frag, "badge", PyStr("Verified"))]

(***************************************************************************)
(* _parse_response, fallback tier.                                         *)
(***************************************************************************)
\* A token made only of characters of the class ["\s:] (an empty literal is
\* two quotes).
IsSepTok(tok) == tok.k \in {":", " "} \/ tok = Str("")

\* The first position at or after i that is not such a token.
RECURSIVE SkipSeps(_, _)
SkipSeps(text, i) ==
    IF i > Len(text) THEN i
    ELSE IF IsSepTok(text[i]) THEN SkipSeps(text, i + 1)
    ELSE i

\* The literal trust_score ends token p; a quoted one is followed by its
\* closing quote, which is of the class.
IsScoreName(tok) == tok = Word("trust_score") \/ tok = QTS

\* re.search(r'trust_score["\s:]+(\d+)', text) matching at token p: one or
\* more class characters, then a run of digits (the opening quote of a quoted
\* run is a class character; a "-" is neither).
ScoreMatchAt(text, p) ==
    /\ IsScoreName(text[p])
    /\ LET j == SkipSeps(text, p + 1)
           seps == (j - p - 1) + (IF text[p] = QTS THEN 1 ELSE 0)
       IN  /\ j <= Len(text)
           /\ \/ text[j].k = "num" /\ text[j].n >= 0 /\ seps >= 1
              \/ text[j].k = "str" /\ text[j].s = "#"

ScoreMatchStarts(text) == {p \in 1..Len(text) : ScoreMatchAt(text, p)}

\* int(score_match.group(1)) if score_match else 75
FallbackScore(text) ==
    IF ScoreMatchStarts(text) = {} THEN DefaultScore
    ELSE LET p == CHOOSE a \in ScoreMatchStarts(text) :
                      \A b \in ScoreMatchStarts(text) : a <= b
         IN  text[SkipSeps(text, p + 1)].n

\* Mutant: the threshold taken as exclusive.
FallbackBadge_Exclusive(score) ==
    IF score > VerifiedThreshold THEN PyStr("Verified") ELSE PyStr("Needs Review")

\* "Verified" if score >= 70 else "Needs Review"
FallbackBadge(score) ==
    IF score >= VerifiedThreshold THEN PyStr("Verified") ELSE PyStr("Needs Review")

\* response_text[:500] if response_text else "Analysis completed"
FallbackReasoning(text) ==
    IF text = <<>> THEN PyStr("Analysis completed")
    ELSE PyText(SubSeq(text, 1, Min(Len(text), ReasoningLimit)))

ParseFallback(text) ==
    [trust_score |-> FallbackScore(text),
     reasoning |-> FallbackReasoning(text),
     badge |-> FallbackBadge(FallbackScore(text))]

_parse_response(text) ==
    IF PrimaryReturns(text) THEN ParsePrimary(text) ELSE ParseFallback(text)

(***************************************************************************)
(* analyze_credentials.  The outbound call either raises or yields a reply *)
(* text; a raise becomes RuntimeError, a reply is parsed.                  *)
(***************************************************************************)
CallFailed == [ok |-> FALSE, text |-> <<>>]
CallReplied(text) == [ok |-> TRUE, text |-> text]

\* Mutant: a failed call answered with mock data instead of raising.
analyze_credentials_Mock(outcome) ==
    IF outcome.ok
    THEN [raised |-> FALSE, result |-> <<_parse_response(outcome.text)>>,
          error |-> ""]
    ELSE [raised |-> FALSE,
          result |-> <<[trust_score |-> DefaultScore,
                        reasoning |-> PyStr("Analysis completed"),
                        badge |-> PyStr("Verified")]>>,
          error |-> ""]

analyze_credentials(outcome) ==
    IF outcome.ok
    THEN [raised |-> FALSE, result |-> <<_parse_response(outcome.text)>>,
          error |-> ""]
    ELSE [raised |-> TRUE, result |-> <<>>,
          error |-> "Error calling Gemini API"]

(***************************************************************************)
(* Request inputs.                                                         *)
(***************************************************************************)
\* The verify requests of the server specification: one triple of its own,
\* two different triples with the same concatenation, and one triple per
\* blank field.
Inputs ==
    {<<<<"a">>, <<"a">>, <<"a">>>>,
     <<<<"a", "a">>, <<"a">>, <<"a">>>>,
     <<<<"a">>, <<"a", "a">>, <<"a">>>>,
     <<<<" ">>, <<"a">>, <<"a">>>>,
     <<<<"a">>, <<" ">>, <<"a">>>>,
     <<<<"a">>, <<"a">>, <<" ">>>>}

\* The reply of the spec's scenario: Looks good. trust_score: 88. Strong ...
ReplyText88 ==
    <<Word("Looks good."), Sym(" "), Word("trust_score"), Sym(":"), Sym(" "),
      Num(88), Word(". Strong alignment.")>>

\* {"trust_score": 150, "reasoning": null}
ReplyJsonNull ==
    <<Sym("{"), QTS, Sym(":"), Sym(" "), Num(150), Sym(","), Sym(" "),
      Str("reasoning"), Sym(":"), Sym(" "), Sym("null"), Sym("}")>>

ServerReplies == {ReplyText88, ReplyJsonNull}
ServerOutcomes == {CallFailed} \cup {CallReplied(t) : t \in ServerReplies}

(***************************************************************************)
(* The session id: hashlib.md5(f"{a}{b}{c}".encode()).hexdigest()[:8].     *)
(* The digest is modelled as collision-free on its input string: an        *)
(* injective numbering of character strings.                               *)
(***************************************************************************)
ConcatFields(fields) == fields[1] \o fields[2] \o fields[3]

CharCode(c) == IF c = " " THEN 1 ELSE IF c = "a" THEN 2 ELSE 3

RECURSIVE Md5Hex8(_)
Md5Hex8(str) ==
    IF str = <<>> THEN 0
    ELSE Md5Hex8(SubSeq(str, 1, Len(str) - 1)) * 4 + CharCode(str[Len(str)])

SessionId(fields) == Md5Hex8(ConcatFields(fields))

\* The ids a caller looks up.
LookupIds == {SessionId(t) : t \in Inputs}

(***************************************************************************)
(* Responses.  sid = -1 and body = <<>> when the response carries none.    *)
(***************************************************************************)
NoResponse == [kind |-> "none", status |-> 0, text |-> "", sid |-> -1, body |-> <<>>]
ErrorView(msg) ==
    [kind |-> "error.html", status |-> 200, text |-> msg, sid |-> -1, body |-> <<>>]
HttpError(code, msg) ==
    [kind |-> "HTTPException", status |-> code, text |-> msg, sid |-> -1, body |-> <<>>]
Redirect(sid) ==
    [kind |-> "redirect", status |-> 303, text |-> "/result/", sid |-> sid, body |-> <<>>]
JsonBody(sid, result) ==
    [kind |-> "VerifyResponse", status |-> 200, text |-> "", sid |-> sid,
     body |-> <<result>>]
ResultView(sid, result) ==
    [kind |-> "result.html", status |-> 200, text |-> "", sid |-> sid,
     body |-> <<result>>]
Unhandled ==
    [kind |-> "unhandled", status |-> 500, text |-> "ValidationError", sid |-> -1,
     body |-> <<>>]

\* Mutant: "not field" in place of "not field.strip()".
ValidationMessage_NoStrip(fields) ==
    IF fields[1] = <<>> THEN "Resume text is required"
    ELSE IF fields[2] = <<>> THEN "GitHub username is required"
    ELSE IF fields[3] = <<>> THEN "LinkedIn URL is required"
    ELSE ""

\* The message of the first field with "not field.strip()", in the fixed
\* order; "" when there is none.
ValidationMessage(fields) ==
    IF Strip(fields[1]) = <<>> THEN "Resume text is required"
    ELSE IF Strip(fields[2]) = <<>> THEN "GitHub username is required"
    ELSE IF Strip(fields[3]) = <<>> THEN "LinkedIn URL is required"
    ELSE ""

\* Mutant: session_storage.setdefault(session_id, result).
StoreResult_KeepFirst(storage, sid, result) ==
    [k \in DOMAIN storage \cup {sid} |->
        IF k \in DOMAIN storage THEN storage[k] ELSE result]

\* Mutant: session_storage = {session_id: result}.
StoreResult_Reset(storage, sid, result) ==
    [k \in {sid} |-> result]

\* session_storage[session_id] = result
StoreResult(storage, sid, result) ==
    [k \in DOMAIN storage \cup {sid} |-> IF k = sid THEN result ELSE storage[k]]

\* VerifyResponse(trust_score=..., reasoning=..., badge=..., session_id=...):
\* reasoning and badge are declared str.  None is refused; an int is coerced
\* or refused, by the pydantic version installed.
ResponseModelAccepts(result) ==
    IF result.reasoning.k = "None" \/ result.badge.k = "None" THEN {FALSE}
    ELSE IF result.reasoning.k = "int" \/ result.badge.k = "int" THEN {TRUE, FALSE}
    ELSE {TRUE}

(***************************************************************************)
(* The handlers, from the return of analyze_credentials on.                *)
(***************************************************************************)
\* Mutant: a placeholder entry stored when the call raised.
VerifyFormAfterCall_Placeholder(storage, fields, ret) ==
    IF ret.raised
    THEN [storage |-> StoreResult(storage, SessionId(fields),
                                  [trust_score |-> 0,
                                   reasoning |-> PyStr("Analysis failed"),
                                   badge |-> PyStr("Unverified")]),
          response |-> ErrorView("Internal server error: " \o ret.error)]
    ELSE [storage |-> StoreResult(storage, SessionId(fields), ret.result[1]),
          response |-> Redirect(SessionId(fields))]

\* verify_credentials_form, lines 153-172: store and redirect, or the error
\* view of the except clause.
VerifyFormAfterCall(storage, fields, ret) ==
    IF ret.raised
    THEN [storage |-> storage,
          response |-> ErrorView("Internal server error: " \o ret.error)]
    ELSE [storage |-> StoreResult(storage, SessionId(fields), ret.result[1]),
          response |-> Redirect(SessionId(fields))]

\* verify_credentials_api, lines 213-235: store, then build the response
\* model; any exception becomes HTTP 500.
VerifyApiAfterCall(storage, fields, ret, accepted) ==
    IF ret.raised
    THEN [storage |-> storage,
          response |-> HttpError(500, "Internal server error: " \o ret.error)]
    ELSE [storage |-> StoreResult(storage, SessionId(fields), ret.result[1]),
          response |-> IF accepted
                       THEN JsonBody(SessionId(fields), ret.result[1])
                       ELSE HttpError(500, "Internal server error: validation error")]

result_page(storage, sid) ==
    IF sid \notin DOMAIN storage
    THEN ErrorView("Session not found. Please verify your credentials again.")
    ELSE ResultView(sid, storage[sid])

get_result_api(storage, sid, accepted) ==
    IF sid \notin DOMAIN storage THEN HttpError(404, "Session not found")
    ELSE IF accepted THEN JsonBody(sid, storage[sid])
    ELSE Unhandled

(***************************************************************************)
(* State.                                                                  *)
(***************************************************************************)
VARIABLES
    session_storage,    \* main.py's dict: session id -> result dict
    req                 \* the HTTP exchanges, numbered in arrival order

vars == <<session_storage, req>>

Reqs == 1..NumReqs
VerifyOps == {"verify_credentials_form", "verify_credentials_api"}
LookupOps == {"result_page", "get_result_api"}

\* An exchange: the handler op and its position pc, the request (fields of a
\* verify, arg of a lookup), the outbound calls it has issued, the outcome of
\* its call, the handler's local result, and the response sent.
IdleReq ==
    [pc |-> "idle", op |-> "", fields |-> <<>>, arg |-> -1, calls |-> 0,
     reply |-> <<>>, result |-> <<>>, response |-> NoResponse]

Init ==
    /\ session_storage = [k \in {} |-> 0]
    /\ req = [r \in Reqs |-> IdleReq]

Arrives(r) ==
    /\ req[r].pc = "idle"
    /\ r > 1 => req[r - 1].pc # "idle"

\* A verify handler from entry to the outbound call: a validation response,
\* or generate_content is called and the handler waits.
BeginVerify(r, op, fields) ==
    /\ Arrives(r)
    /\ LET msg == ValidationMessage(fields)
       IN  req' = [req EXCEPT ![r] =
               IF msg # ""
               THEN [IdleReq EXCEPT !.pc = "done", !.op = op, !.fields = fields,
                        !.response = IF op = "verify_credentials_form"
                                     THEN ErrorView(msg)
                                     ELSE HttpError(400, msg)]
               ELSE [IdleReq EXCEPT !.pc = "calling", !.op = op,
                        !.fields = fields, !.calls = 1]]
    /\ UNCHANGED session_storage

\* The call returns or raises; the handler runs to its response.
CompleteVerify(r, outcome) ==
    /\ req[r].pc = "calling"
    /\ LET ret == analyze_credentials(outcome)
       IN  \E accepted \in (IF ret.raised THEN {TRUE}
                            ELSE ResponseModelAccepts(ret.result[1])) :
             LET after == IF req[r].op = "verify_credentials_form"
                          THEN VerifyFormAfterCall(session_storage,
                                                   req[r].fields, ret)
                          ELSE VerifyApiAfterCall(session_storage,
                                                  req[r].fields, ret, accepted)
             IN  /\ session_storage' = after.storage
                 /\ req' = [req EXCEPT ![r].pc = "done",
                                       ![r].reply = <<outcome>>,
                                       ![r].result = ret.result,
                                       ![r].response = after.response]

\* result_page and get_result_api.
Lookup(r, op, sid) ==
    /\ Arrives(r)
    /\ \E accepted \in (IF sid \in DOMAIN session_storage
                        THEN ResponseModelAccepts(session_storage[sid])
                        ELSE {TRUE}) :
         req' = [req EXCEPT ![r] =
             [IdleReq EXCEPT !.pc = "done", !.op = op, !.arg = sid,
                 !.response = IF op = "result_page"
                              THEN result_page(session_storage, sid)
                              ELSE get_result_api(session_storage, sid, accepted)]]
    /\ UNCHANGED session_storage

Next ==
    \E r \in Reqs :
        \/ \E op \in VerifyOps, fields \in Inputs : BeginVerify(r, op, fields)
        \/ \E outcome \in ServerOutcomes : CompleteVerify(r, outcome)
        \/ \E op \in LookupOps, sid \in LookupIds : Lookup(r, op, sid)

Spec == Init /\ [][Next]_vars

(***************************************************************************)
(* Validation specification: after one stored verify, a verify request     *)
(* whose fields are any character strings of up to MaxFieldLen characters. *)
(***************************************************************************)
RECURSIVE Strings(_)
Strings(n) ==
    IF n = 0 THEN {<<>>}
    ELSE Strings(n - 1) \cup
         {str \o <<c>> : str \in {x \in Strings(n - 1) : Len(x) = n - 1},
                         c \in {" ", "a"}}

AnyField == Strings(MaxFieldLen)
AnyTriples == AnyField \X AnyField \X AnyField

FirstInput == <<<<"a">>, <<"a">>, <<"a">>>>
FirstOutcome == CallReplied(ReplyText88)

NextValidate ==
    \/ BeginVerify(1, "verify_credentials_form", FirstInput)
    \/ CompleteVerify(1, FirstOutcome)
    \/ \E op \in VerifyOps, fields \in AnyTriples : BeginVerify(2, op, fields)
    \/ \E outcome \in ServerOutcomes : CompleteVerify(2, outcome)

SpecValidate == Init /\ [][NextValidate]_vars

(***************************************************************************)
(* Parser specification: one verify request per path, answered by any      *)
(* reply of the form prefix, body: the body an object of up to MaxMembers  *)
(* members (well-formed or with a trailing comma), bare text or nothing.   *)
(***************************************************************************)
MemberKeys == {QTS, Str("reasoning"), Str("badge")}
MemberValues == {Num(42), Num(150), NumStr(85), Str("Maybe"), Sym("null")}
Members == {<<k, Sym(":"), Sym(" "), v>> : k \in MemberKeys, v \in MemberValues}

RECURSIVE MemberLists(_)
MemberLists(n) ==
    IF n = 1 THEN Members
    ELSE {l \o <<Sym(",")>> \o m : l \in MemberLists(n - 1), m \in Members}

Objects ==
    LET lists == UNION {MemberLists(n) : n \in 1..MaxMembers}
    IN  {<<Sym("{")>> \o l \o <<Sym("}")>> : l \in lists} \cup
        {<<Sym("{")>> \o l \o <<Sym(","), Sym("}")>> : l \in lists}

Bodies ==
    Objects \cup
    {<<>>,
     <<Word("trust_score"), Word(" looks high")>>,
     <<Word("The "), Word("trust_score"), Sym(" "), Num(65), Word(" is low")>>}
Prefixes == {<<>>, <<Word("trust_score"), Sym(":"), Sym(" "), Num(70), Sym(" ")>>}

Replies == {p \o b : p \in Prefixes, b \in Bodies}

ParseOutcomes == {CallReplied(text) : text \in Replies}

NextParse ==
    \/ \E op \in VerifyOps : BeginVerify(1, op, FirstInput)
    \/ \E outcome \in ParseOutcomes : CompleteVerify(1, outcome)

SpecParse == Init /\ [][NextParse]_vars

(***************************************************************************)
(* Vocabulary of the properties.                                           *)
(***************************************************************************)
Done(r) == req[r].pc = "done"
IsVerify(r) == req[r].op \in VerifyOps

\* Exchange r takes its first step (arrives) or its last one (its call returns).
Begins(r) == req[r].pc = "idle" /\ req'[r].pc # "idle"
Completes(r) == req[r].pc = "calling" /\ req'[r].pc = "done"

\* A verify exchange that gave its caller a session id.
Succeeded(x) == x.response.kind \in {"redirect", "VerifyResponse"}

\* Empty after trimming: nothing but whitespace in it.
Blank(field) == \A i \in 1..Len(field) : field[i] \in Whitespace
SomeFieldBlank(fields) == \E i \in 1..3 : Blank(fields[i])

RequiredMessages ==
    {"Resume text is required", "GitHub username is required",
     "LinkedIn URL is required"}

ValidationOutcome(x) ==
    /\ x.response.text \in RequiredMessages
    /\ x.response.sid = -1
    /\ x.response.body = <<>>
    /\ IF x.op = "verify_credentials_form"
       THEN x.response.kind = "error.html"
       ELSE x.response.kind = "HTTPException" /\ x.response.status = 400

ResultKeys == {"trust_score", "reasoning", "badge"}
BadgeEnum == {PyStr("Verified"), PyStr("Needs Review"), PyStr("Unverified")}

(***************************************************************************)
(* C1.  Every entry of the session mapping is a complete result dict       *)
(* (trust_score, reasoning, badge) that a completed, successful            *)
(* analyze_credentials call returned to the verify request with that       *)
(* session id; nothing is stored for a call that raised, and nothing is    *)
(* stored before the call returns.                                         *)
(***************************************************************************)
C1_EntriesAreClientResults ==
    \A sid \in DOMAIN session_storage :
        /\ DOMAIN session_storage[sid] = ResultKeys
        /\ \E r \in Reqs :
              /\ IsVerify(r) /\ Done(r)
              /\ req[r].calls = 1
              /\ req[r].reply # <<>> /\ req[r].reply[1].ok
              /\ SessionId(req[r].fields) = sid
              /\ req[r].result = <<session_storage[sid]>>

\* One request stored its result; another one's call raised.
C1_Witness ==
    /\ session_storage # <<>>
    /\ \E r \in Reqs : IsVerify(r) /\ Done(r) /\ req[r].reply = <<CallFailed>>
    /\ \E r \in Reqs : IsVerify(r) /\ Done(r) /\ Succeeded(req[r])

(***************************************************************************)
(* C2.  A verify request (form or API) with a field that is empty after    *)
(* trimming ends, in the step it arrives, in the validation outcome (error *)
(* view with the field's message, or HTTP 400), issues no outbound call    *)
(* and leaves the session mapping as it was.                               *)
(***************************************************************************)
C2_BlankFieldRejected ==
    [][\A r \in Reqs :
          (Begins(r) /\ req'[r].op \in VerifyOps /\ SomeFieldBlank(req'[r].fields))
          => /\ req'[r].pc = "done"
             /\ req'[r].calls = 0
             /\ req'[r].reply = <<>>
             /\ ValidationOutcome(req'[r])
             /\ session_storage' = session_storage]_vars

\* With an entry stored, a request whose first field is valid and whose
\* second is whitespace only was rejected with the second field's message.
C2_Witness ==
    /\ session_storage # <<>>
    /\ \E r \in Reqs :
          /\ IsVerify(r) /\ Done(r)
          /\ req[r].fields[1] = <<" ", "a">>
          /\ req[r].fields[2] = <<" ", " ">>
          /\ req[r].calls = 0
          /\ req[r].response.text = "GitHub username is required"

(***************************************************************************)
(* C3.  When the outbound call of a verify request with valid fields       *)
(* fails, the request has made exactly one outbound attempt, ends in an    *)
(* error outcome carrying the failure text (error view on the form path,   *)
(* HTTP 500 on the API path), holds no result, and the session mapping is  *)
(* left as it was.                                                         *)
(***************************************************************************)
C3_FailedCallIsTerminal ==
    [][\A r \in Reqs :
          (Completes(r) /\ ~req'[r].reply[1].ok)
          => /\ req'[r].calls = 1
             /\ req'[r].result = <<>>
             /\ req'[r].response.text =
                    "Internal server error: Error calling Gemini API"
             /\ req'[r].response.sid = -1
             /\ req'[r].response.body = <<>>
             /\ IF req'[r].op = "verify_credentials_form"
                THEN req'[r].response.kind = "error.html"
                ELSE /\ req'[r].response.kind = "HTTPException"
                     /\ req'[r].response.status = 500
             /\ session_storage' = session_storage]_vars

\* A failed call on each path.
C3_Witness ==
    \E r, q \in Reqs :
        /\ Done(r) /\ req[r].op = "verify_credentials_form"
        /\ Done(q) /\ req[q].op = "verify_credentials_api"
        /\ req[r].reply = <<CallFailed>> /\ req[q].reply = <<CallFailed>>

(***************************************************************************)
(* C4.  For valid inputs and every reply, a verify request either succeeds *)
(* with a result whose trust_score is in 0..100 and whose badge is one of  *)
(* Verified, Needs Review, Unverified, or ends in one error and gives no   *)
(* result and no session id.                                               *)
(***************************************************************************)
C4_ResultInRangeOrError ==
    \A r \in Reqs :
        (IsVerify(r) /\ Done(r) /\ ~SomeFieldBlank(req[r].fields))
        => \/ /\ Succeeded(req[r])
              /\ req[r].result # <<>>
              /\ req[r].result[1].trust_score \in 0..100
              /\ req[r].result[1].badge \in BadgeEnum
           \/ /\ req[r].response.kind \in {"error.html", "HTTPException"}
              /\ req[r].response.sid = -1
              /\ req[r].response.body = <<>>

(***************************************************************************)
(* C5.  When a verify request succeeds and a request with the identical    *)
(* three fields succeeded before it, both got the same session id, the     *)
(* mapping now holds the later request's result under that id, and the     *)
(* mapping has no more entries than before.                                *)
(***************************************************************************)
C5_IdempotentOverwrite ==
    [][\A r, q \in Reqs :
          (/\ r # q
           /\ IsVerify(q) /\ Done(q) /\ Succeeded(req[q])
           /\ Completes(r) /\ Succeeded(req'[r])
           /\ req[r].fields = req[q].fields)
          => /\ req'[r].response.sid = req[q].response.sid
             /\ req'[r].response.sid \in DOMAIN session_storage'
             /\ <<session_storage'[req'[r].response.sid]>> = req'[r].result
             /\ DOMAIN session_storage' = DOMAIN session_storage]_vars

\* Two successful requests with the same fields and different results: one
\* entry, and it is not the result of one of them.
C5_Witness ==
    \E r, q \in Reqs :
        /\ IsVerify(r) /\ Done(r) /\ Succeeded(req[r])
        /\ IsVerify(q) /\ Done(q) /\ Succeeded(req[q])
        /\ req[r].fields = req[q].fields
        /\ req[r].result # req[q].result
        /\ Cardinality(DOMAIN session_storage) = 1
        /\ <<session_storage[req[r].response.sid]>> = req[r].result

\* The session ids verify requests have given their callers so far.
ReturnedIds == {req[q].response.sid : q \in {x \in Reqs : IsVerify(x) /\ Succeeded(req[x])}}

NotFoundOutcome(x) ==
    IF x.op = "result_page"
    THEN /\ x.response.kind = "error.html"
         /\ x.response.text =
                "Session not found. Please verify your credentials again."
    ELSE x.response.kind = "HTTPException" /\ x.response.status = 404

(***************************************************************************)
(* C6.  A lookup (result_page or get_result_api) of a session id that no   *)
(* verify request has returned to its caller so far yields the not-found   *)
(* outcome: the "Session not found..." error view, or HTTP 404.            *)
(***************************************************************************)
C6_UnreturnedIdNotFound ==
    [][\A r \in Reqs :
          (Begins(r) /\ req'[r].op \in LookupOps /\ req'[r].arg \notin ReturnedIds)
          => NotFoundOutcome(req'[r])]_vars

(***************************************************************************)
(* C7.  When _parse_response resolves a reply through the fallback tier    *)
(* (the primary tier found no object fragment with "trust_score", or       *)
(* raised), the score is the first digit run after trust_score, or 75, the *)
(* badge is "Verified" if that score is >= 70 and "Needs Review"           *)
(* otherwise, and never "Unverified".                                      *)
(***************************************************************************)
C7_FallbackBadgeLaw ==
    \A r \in Reqs :
        (/\ IsVerify(r) /\ Done(r)
         /\ req[r].reply # <<>> /\ req[r].reply[1].ok
         /\ ~PrimaryReturns(req[r].reply[1].text))
        => /\ req[r].result # <<>>
           /\ req[r].result[1].trust_score = FallbackScore(req[r].reply[1].text)
           /\ req[r].result[1].trust_score >= 70
                 <=> req[r].result[1].badge = PyStr("Verified")
           /\ req[r].result[1].trust_score < 70
                 <=> req[r].result[1].badge = PyStr("Needs Review")
           /\ req[r].result[1].badge # PyStr("Unverified")

\* The fallback tier ran after the primary tier raised (an object fragment
\* was matched, and json.loads refused it) and found the score 70.
C7_Witness ==
    \E r \in Reqs :
        /\ IsVerify(r) /\ Done(r)
        /\ req[r].reply # <<>> /\ req[r].reply[1].ok
        /\ HasJsonMatch(req[r].reply[1].text)
        /\ ~PrimaryReturns(req[r].reply[1].text)
        /\ req[r].result[1].trust_score = 70
        /\ req[r].result[1].badge = PyStr("Verified")

(***************************************************************************)
(* C8.  Under any interleaving of verify requests, a step changes the      *)
(* session mapping only by setting the entry of the completing request's   *)
(* own session id to exactly the result that request got from the client   *)
(* (the last store wins, whole); every other entry stays as it was and     *)
(* none is removed.                                                        *)
(***************************************************************************)
C8_LastWriteWins ==
    [][/\ DOMAIN session_storage \subseteq DOMAIN session_storage'
       /\ \A sid \in DOMAIN session_storage' :
             \/ /\ sid \in DOMAIN session_storage
                /\ session_storage'[sid] = session_storage[sid]
             \/ \E r \in Reqs :
                   /\ Completes(r)
                   /\ SessionId(req[r].fields) = sid
                   /\ req'[r].result = <<session_storage'[sid]>>]_vars

\* Two requests with different fields and the same session id both stored,
\* with different results: the mapping holds one of the two results, whole.
C8_Witness ==
    \E r, q \in Reqs :
        /\ IsVerify(r) /\ Done(r) /\ req[r].result # <<>>
        /\ IsVerify(q) /\ Done(q) /\ req[q].result # <<>>
        /\ req[r].fields # req[q].fields
        /\ SessionId(req[r].fields) = SessionId(req[q].fields)
        /\ req[r].result # req[q].result
        /\ <<session_storage[SessionId(req[r].fields)]>> = req[r].result

(***************************************************************************)
(* C9.  A verify request on the API path that ends in an error response    *)
(* (HTTP 400 or 500) leaves the session mapping as it was.                 *)
(***************************************************************************)
C9_ApiErrorLeavesStorage ==
    [][\A r \in Reqs :
          (/\ Begins(r) \/ Completes(r)
           /\ req'[r].op = "verify_credentials_api"
           /\ req'[r].response.kind = "HTTPException")
          => session_storage' = session_storage]_vars

(***************************************************************************)
(* C10.  Two successful verify requests with different field triples get   *)
(* different session ids (the digest being collision-free on its input).   *)
(***************************************************************************)
C10_DistinctTriplesDistinctIds ==
    \A r, q \in Reqs :
        (/\ IsVerify(r) /\ Done(r) /\ Succeeded(req[r])
         /\ IsVerify(q) /\ Done(q) /\ Succeeded(req[q])
         /\ req[r].fields # req[q].fields)
        => req[r].response.sid # req[q].response.sid

=============================================================================
